---- MODULE Spec2Model ----
(***************************************************************************)
(* Bidirectional sync between a local store (user, organization, member,   *)
(* attioIntegration tables) and Attio.  The model follows the inbound      *)
(* webhook handler (core.ts, attioWebhook), the built-in user and          *)
(* organization adapters, the value extractor and the outbound dispatcher  *)
(* (sendWebhookEvent).  Every await on the store or on the dispatcher is   *)
(* a step of the handler.                                                  *)
(***************************************************************************)
EXTENDS Integers, Sequences, FiniteSets, TLC

\* ---------------------------------------------------------------- bounds
\* total number of events carried by all webhook requests of a run
MaxEvents == 2
\* number of store calls that may throw during a run
MaxFaults == 1
\* longest field envelope handed to extractAttioValue on its own
MaxLen == 3
\* endpoints linked during a run
MaxLinks == 1
\* longest list of adapters a caller hands to getAdapters
MaxAdapters == 2

\* ------------------------------------------------------------ JS values
\* A JavaScript value: undefined, null, a string, an array of values or an
\* object with string-valued properties.
Undef == [k |-> "undef", s |-> "", a |-> <<>>, f |-> <<>>]
Null == [k |-> "null", s |-> "", a |-> <<>>, f |-> <<>>]
Str(x) == [k |-> "str", s |-> x, a |-> <<>>, f |-> <<>>]
Arr(q) == [k |-> "arr", s |-> "", a |-> q, f |-> <<>>]
Obj(o) == [k |-> "obj", s |-> "", a |-> <<>>, f |-> o]
\* the result of an evaluation that threw
Thrown == [k |-> "throw", s |-> "", a |-> <<>>, f |-> <<>>]

\* obj[key] on a plain object / record of values
Get(o, key) == IF key \in DOMAIN o THEN o[key] ELSE Undef
\* item.key on an envelope element whose properties are strings
Prop(item, key) == IF key \in DOMAIN item.f THEN Str(item.f[key]) ELSE Undef
\* JavaScript truthiness of a value
Truthy(v) == v.k \in {"arr", "obj"} \/ (v.k = "str" /\ v.s # "")

\* ------------------------------------------------------ value extractor
\* for comparison: the `value` property tried before the type tags
extractSingleValue_ValueFirst(item) ==
    IF item.k \in {"undef", "null", "str"} THEN Thrown
    ELSE IF "value" \in DOMAIN item.f THEN Str(item.f["value"])
    ELSE IF "email_address" \in DOMAIN item.f THEN Str(item.f["email_address"])
    ELSE Null
extractSingleValue(item) ==
    IF item.k \in {"undef", "null"} THEN Thrown
    ELSE IF Prop(item, "attribute_type") = Str("email-address")
        THEN Prop(item, "email_address")
    ELSE IF Prop(item, "attribute_type") = Str("phone-number")
        THEN IF Truthy(Prop(item, "phone_number"))
             THEN Prop(item, "phone_number")
             ELSE Prop(item, "original_phone_number")
    ELSE IF Prop(item, "attribute_type") = Str("record-reference")
        THEN Prop(item, "target_record_id")
    ELSE IF Prop(item, "attribute_type") = Str("personal-name")
        THEN Prop(item, "full_name")
    ELSE IF item.k = "str" THEN Thrown
    ELSE IF "value" \in DOMAIN item.f THEN Prop(item, "value")
    ELSE IF "referenced_actor_id" \in DOMAIN item.f
        THEN Prop(item, "referenced_actor_id")
    ELSE Null

extractAttioValue(fieldData) ==
    IF fieldData.k # "arr" \/ Len(fieldData.a) = 0 THEN Null
    ELSE IF Len(fieldData.a) = 1 THEN extractSingleValue(fieldData.a[1])
    ELSE IF \E i \in 1..Len(fieldData.a) : extractSingleValue(fieldData.a[i]) = Thrown
        THEN Thrown
    ELSE Arr([i \in 1..Len(fieldData.a) |-> extractSingleValue(fieldData.a[i])])

\* the earlier extractAttioValue kept beside the organization adapter: it
\* reads the first element only, by the same rules
extractAttioValueFirst(fieldData) ==
    IF fieldData.k = "arr" /\ Len(fieldData.a) > 0
    THEN extractSingleValue(fieldData.a[1])
    ELSE Null

\* extractAttioValue of the given revision of the utilities
Extractor(rev, fieldData) ==
    IF rev = "part_004" THEN extractAttioValue(fieldData)
    ELSE extractAttioValueFirst(fieldData)

\* ------------------------------------------------------------ the store
\* The host persistence layer: one set of rows per model.  A row maps
\* column names to strings; "null" is the database NULL.
DbNull == "null"
\* what the store keeps of a JavaScript value
ToDb(v) == IF v.k = "str" THEN v.s ELSE IF v.k = "arr" THEN "array" ELSE DbNull
\* new Date() during the run; rows that exist before it carry "t0"
Now == Str("t1")

Columns(model) ==
    CASE model = "user" -> {"id", "attioId", "email", "name", "createdAt", "updatedAt"}
      [] model = "organization" -> {"id", "attioId", "name", "createdAt", "updatedAt"}
      [] model = "member" ->
            {"id", "organizationId", "userId", "role", "createdAt", "updatedAt"}
      [] OTHER -> {"id", "webhookUrl"}

\* the keys of a patch the store writes: undefined values are not written
Written(patch) == {key \in DOMAIN patch : patch[key].k # "undef"}

\* adapter.findMany / findOne candidates: the rows whose columns equal `where`
FindRows(table, where) ==
    {r \in table : \A c \in DOMAIN where : c \in DOMAIN r /\ r[c] = where[c]}

\* the row adapter.create stores: `data` over NULL columns, with a generated
\* id when the data carries none
NewRow(model, data, freshId) ==
    [c \in Columns(model) \cup Written(data) |->
        IF c \in Written(data) /\ ~(c = "id" /\ ToDb(data[c]) = DbNull)
        THEN ToDb(data[c])
        ELSE IF c = "id" THEN freshId ELSE DbNull]

\* the row adapter.update leaves: the written keys of `update` over `row`
Patched(row, update) ==
    [c \in DOMAIN row \cup Written(update) |->
        IF c \in Written(update) THEN ToDb(update[c]) ELSE row[c]]

\* the table after adapter.update on the rows matching `where`
UpdateRows(table, where, update) ==
    {IF r \in FindRows(table, where) THEN Patched(r, update) ELSE r : r \in table}

\* the table after adapter.delete on the rows matching `where`
DeleteRows(table, where) == table \ FindRows(table, where)

\* ------------------------------------------------------------- adapters
\* opts.adapters: the registered adapters, by the Attio object they serve
AdapterModel(slug) ==
    CASE slug = "users" -> "user"
      [] slug = "workspaces" -> "organization"
      [] OTHER -> "none"

\* for comparison: an unrecognised event_type handled as an update
SyncEventOf_Lenient(eventType) ==
    CASE eventType = "record.created" -> "create"
      [] eventType = "record.deleted" -> "delete"
      [] OTHER -> "update"
\* event_type -> SyncEvent; "none" for an unrecognised type
SyncEventOf(eventType) ==
    CASE eventType = "record.created" -> "create"
      [] eventType = "record.updated" -> "update"
      [] eventType = "record.deleted" -> "delete"
      [] OTHER -> "none"

\* the record handed to adapter.fromAttio: the external id under record_id,
\* then every field of record.values flattened by the extractor
ExtractedValues(rid, values) ==
    [key \in DOMAIN values \cup {"record_id"} |->
        IF key \in DOMAIN values THEN extractAttioValue(values[key]) ELSE Str(rid)]

\* a patch with the keys whose value is null left out
NonNull(key, v) == IF v = Null THEN <<>> ELSE (key :> v)

\* the outcome of a fromAttio call that returned a patch, returned null or threw
Returned(patch) == [thrown |-> FALSE, nul |-> FALSE, p |-> patch]
ReturnedNull == [thrown |-> FALSE, nul |-> TRUE, p |-> <<>>]
Threw == [thrown |-> TRUE, nul |-> FALSE, p |-> <<>>]

\* userAdapter.fromAttio
userFromAttio(event, values, newId) ==
    LET userId == extractAttioValue(Get(values, "user_id"))
        email == extractAttioValue(Get(values, "primary_email_address"))
        name == extractAttioValue(Get(values, "name"))
        emailVerified == extractAttioValue(Get(values, "email_verified"))
        base == ("attioId" :> Get(values, "record_id")) @@ NonNull("email", email)
                    @@ NonNull("name", name) @@ NonNull("emailVerified", emailVerified)
    IN  IF event = "delete"
        THEN IF userId = Thrown THEN Threw ELSE Returned("id" :> userId)
        ELSE IF Thrown \in {email, name, emailVerified} THEN Threw
        ELSE IF event = "create"
        THEN Returned(base @@ ("id" :> Str(newId)) @@ ("createdAt" :> Now)
                        @@ ("updatedAt" :> Now))
        ELSE Returned(base)

\* userAdapter.toAttio; a key whose value is undefined is not serialised
userToAttio(event, values) ==
    LET id == IF "id" \in DOMAIN values THEN ("user_id" :> values.id) ELSE <<>>
    IN  IF event = "delete" THEN ("_deleted" :> "true") @@ id
        ELSE id @@ (IF "email" \in DOMAIN values
                     THEN ("primary_email_address" :> values.email) ELSE <<>>)
                @@ (IF "name" \in DOMAIN values THEN ("name" :> values.name) ELSE <<>>)

\* organizationAdapter.toAttio without its users list
orgToAttio(rev, event, values) ==
    LET id == IF "id" \in DOMAIN values THEN ("workspace_id" :> values.id) ELSE <<>>
        rec == IF rev = "part_003" /\ "attioId" \in DOMAIN values
               THEN ("record_id" :> values.attioId) ELSE <<>>
    IN  IF event = "delete" THEN ("_deleted" :> "true") @@ id
        ELSE rec @@ id
                @@ (IF "name" \in DOMAIN values THEN ("name" :> values.name) ELSE <<>>)

\* the users list of organizationAdapter.toAttio: the attioIds of the users
\* that are members of the organization
orgToAttioUsers(db, event, values) ==
    IF event = "delete" \/ "id" \notin DOMAIN values THEN {}
    ELSE {u.attioId : u \in {u \in db.user : u.attioId # DbNull /\
            \E m \in db.member : m.organizationId = values.id /\ m.userId = u.id}}

\* the characters of an external id, as `for (const c of id)` yields them
Chars(s) ==
    CASE s = "ua1" -> <<Str("u"), Str("a"), Str("1")>>
      [] s = "ua2" -> <<Str("u"), Str("a"), Str("2")>>
      [] s = "ux9" -> <<Str("u"), Str("x"), Str("9")>>
      [] OTHER -> <<>>

\* organizationAdapter.fromAttio: the user references the member sync walks
userRefsOf(rev, rawUsers) ==
    IF rev = "part_002"
    THEN \* (values.users as string[]) || []
         IF ~Truthy(rawUsers) THEN <<>>
         ELSE IF rawUsers.k = "str" THEN Chars(rawUsers.s)
         ELSE rawUsers.a
    ELSE \* rawUsers ? (Array.isArray(rawUsers) ? rawUsers : [rawUsers]) : []
         IF ~Truthy(rawUsers) THEN <<>>
         ELSE IF rawUsers.k = "arr" THEN rawUsers.a
         ELSE <<rawUsers>>

\* organizationAdapter.fromAttio: orgData
orgDataOf(rev, values) ==
    LET name == IF rev = "part_002" THEN extractAttioValue(Get(values, "name"))
                ELSE Get(values, "name")
    IN  IF name = Thrown THEN Threw
        ELSE Returned(("attioId" :> Get(values, "record_id")) @@ NonNull("name", name))

\* organizationAdapter.fromAttio, update of an organization that is not
\* stored: the patch left to the default policy
orgMissingPatch(rev, orgData, values, newId) ==
    IF rev = "part_002" THEN orgData
    ELSE ("id" :> Str(newId))
            @@ ("name" :> (IF Truthy(Get(values, "name")) THEN Get(values, "name")
                           ELSE Str("Unnamed Organization")))
            @@ ("createdAt" :> Now) @@ ("updatedAt" :> Now) @@ orgData

\* organizationAdapter.fromAttio: what it returns once the members are synced
orgSyncedResult(rev, orgId, values) ==
    IF rev = "part_002" THEN ReturnedNull
    ELSE Returned(("id" :> Str(orgId)) @@ ("attioId" :> Get(values, "record_id")))

\* the opposite order, the organization row first, for comparison
OrgDeleteOrder_OrgFirst == <<"organization", "member">>
\* organizationAdapter.fromAttio, delete: the models it deletes from, in order
OrgDeleteOrder == <<"member", "organization">>

\* for comparison: a reference that resolves to no user kept as a user id
ResolveUsers_KeepUnknown(users, refs, acc) ==
    [i \in 1..Len(refs) |->
        IF refs[i].k = "str" /\ FindRows(users, [attioId |-> refs[i].s]) # {}
        THEN (CHOOSE u \in FindRows(users, [attioId |-> refs[i].s]) : TRUE).id
        ELSE refs[i].s]
\* for comparison: the resolved ids kept in an array, one entry per reference
ResolveUsers_Array(users, refs, acc) ==
    LET ids == [i \in 1..Len(refs) |->
                    IF refs[i].k = "str" /\ FindRows(users, [attioId |-> refs[i].s]) # {}
                    THEN (CHOOSE u \in FindRows(users, [attioId |-> refs[i].s]) : TRUE).id
                    ELSE DbNull]
    IN  SelectSeq(ids, LAMBDA uid : uid # DbNull)
\* RECURSIVE helper: the local user ids the references resolve to, in the
\* order the references list them, each id once (a JavaScript Set)
RECURSIVE ResolveUsers(_, _, _)
ResolveUsers(users, refs, acc) ==
    IF refs = <<>> THEN acc
    ELSE LET ref == Head(refs)
             found == IF ref.k = "str" THEN FindRows(users, [attioId |-> ref.s]) ELSE {}
             uid == IF found = {} THEN DbNull ELSE (CHOOSE u \in found : TRUE).id
         IN  ResolveUsers(users, Tail(refs),
                IF found = {} \/ \E i \in 1..Len(acc) : acc[i] = uid
                THEN acc ELSE Append(acc, uid))

\* --------------------------------------------------------------- inputs
TextEl(x) == Obj(("attribute_type" :> "text") @@ ("value" :> x))
EmailEl(x) == Obj(("attribute_type" :> "email-address") @@ ("email_address" :> x))
RefEl(x) == Obj(("attribute_type" :> "record-reference") @@ ("target_record_id" :> x)
                    @@ ("target_object" :> "users"))

RawEvent(shape, type, slug, rid, values) ==
    [shape |-> shape, type |-> type, slug |-> slug, rid |-> rid, values |-> values]
NoEvent == RawEvent("none", "", "", "", <<>>)

\* the envelopes of the users attribute of a workspace record
UsersEnvelopes ==
    {Arr(<<RefEl("ua1")>>), Arr(<<RefEl("ua1"), RefEl("ua2")>>),
     Arr(<<RefEl("ua2"), RefEl("ux9")>>), Arr(<<RefEl("ua2"), RefEl("ua2")>>)}

WorkspaceEvents ==
    {RawEvent("ok", "record.deleted", "workspaces", "w1", <<>>)}
    \cup {RawEvent("ok", t, "workspaces", "w1", ("name" :> Arr(<<TextEl("Acme")>>)))
            : t \in {"record.created", "record.updated"}}
    \cup {RawEvent("ok", t, "workspaces", "w1",
                   ("name" :> Arr(<<TextEl("Acme")>>)) @@ ("users" :> u))
            : t \in {"record.created", "record.updated"}, u \in UsersEnvelopes}

UserEvents ==
    {RawEvent("ok", "record.deleted", "users", r, <<>>) : r \in {"ua1", "ua3"}}
    \cup {RawEvent("ok", t, "users", r, ("name" :> Arr(<<TextEl("Ann")>>)))
            : t \in {"record.created", "record.updated"}, r \in {"ua1", "ua3"}}
    \cup {RawEvent("ok", "record.updated", "users", "ua1",
                   ("name" :> Arr(<<TextEl("Ann"), TextEl("Bob")>>)))}
    \cup {RawEvent("ok", "record.created", "users", "ua3",
                   ("name" :> Arr(<<TextEl("Dee")>>))
                        @@ ("primary_email_address" :> Arr(<<EmailEl("d@x")>>)))}
    \cup {RawEvent("ok", "record.updated", "users", "ua1",
                   ("record_id" :> Arr(<<TextEl("ua9")>>)))}

\* events the handler skips or cannot read
OddEvents ==
    {RawEvent("norecord", "record.created", "users", "", <<>>),
     RawEvent("novalues", "record.created", "users", "ua3", <<>>),
     RawEvent("ok", "record.created", "things", "t1", <<>>),
     RawEvent("ok", "record.merged", "users", "ua1", <<>>)}

Events == WorkspaceEvents \cup UserEvents \cup OddEvents

\* the plugin options: the adapters' onMissing and syncDeletions, and which
\* of the two organization adapters of the repository is registered
Configs ==
    [onMissing : {"unset", "create", "delete", "ignore"},
     syncDeletions : {"unset", "false"},
     orgRev : {"part_002", "part_003"}]

\* opts.secret and the secrets a request may carry
Secret == "s3cret"
GivenSecrets == {"s3cret", "wrong"}

Row(model, id, cols) == [c \in Columns(model) |-> IF c \in DOMAIN cols THEN cols[c]
                            ELSE IF c = "id" THEN id
                            ELSE IF c \in {"createdAt", "updatedAt"} THEN "t0" ELSE DbNull]

\* the store before the run: two users known to Attio, one that is not, an
\* organization known to Attio with two of them as members, one endpoint
SeedDb ==
    [user |-> {Row("user", "1", [attioId |-> "ua1", name |-> "Ann"]),
               Row("user", "2", [attioId |-> "ua2", name |-> "Bob"]),
               Row("user", "3", [name |-> "Cyd"])},
     organization |-> {Row("organization", "4", [attioId |-> "w1", name |-> "Acme"])},
     member |-> {Row("member", "5", [organizationId |-> "4", userId |-> "1",
                                      role |-> "owner"]),
                 Row("member", "6", [organizationId |-> "4", userId |-> "3",
                                      role |-> "member"])},
     attioIntegration |-> {Row("attioIntegration", "e1", [webhookUrl |-> "https://a"])}]

\* ---------------------------------------------------------------- state
VARIABLES
    db,        \* the store: model -> set of rows
    nextId,    \* the next id ctx.generateId / the store hands out
    opts,      \* the plugin options
    pc,        \* where the webhook handler is
    left,      \* events the requests of the run may still carry
    ev,        \* the event being handled
    res,       \* what adapter.fromAttio returned for it
    loc,       \* locals of organizationAdapter.fromAttio
    out,       \* the outbound event about to be dispatched
    sent,      \* outbound events dispatched for the event being handled
    writes,    \* store writes made for the event being handled
    status,    \* how the handling of the event ended
    snap,      \* the store as the event being handled found it
    prev,      \* the create event the loop has just applied, if it has
    faults,    \* store calls that threw so far
    response,  \* the response to the last webhook request
    req,       \* ctx.body.secret of the last webhook request
    found,     \* `existing`: the row the handler's findOne gave for the event
    call,      \* the last call of extractAttioValue made on its own
    sw,        \* the call of sendWebhookEvent made on its own
    reg,       \* the last call of getAdapters made on its own
    link       \* the link / unlink request being served, and its response

vars == <<db, nextId, opts, pc, left, ev, res, loc, out, sent, writes,
          status, snap, prev, faults, response, req, found, call, sw, reg, link>>

NoLoc == [orgId |-> "", k |-> 0, toDelete |-> {}, toCreate |-> <<>>]
NoOut == [event |-> "", values |-> <<>>]
NoPrev == [type |-> "", slug |-> "", rid |-> ""]
NoRow == [id |-> DbNull]
NoCall == [rev |-> "", fieldData |-> Undef, result |-> Undef]
NoSend == [pc |-> "idle", adapter |-> "", event |-> "", values |-> <<>>,
           waitUntil |-> FALSE, attioData |-> Undef, webhooks |-> <<>>,
           posts |-> <<>>, handed |-> 0, failure |-> "", outcome |-> "",
           gone |-> {}]
NoReg == [pc |-> "idle", userAdapters |-> <<>>, adapters |-> <<>>, model |-> "",
          found |-> <<>>]
NoLink == [pc |-> "idle", op |-> "", arg |-> "", response |-> "none", links |-> 0]

Init ==
    /\ db = SeedDb
    /\ nextId = 7
    /\ opts \in Configs
    /\ pc = "idle"
    /\ left = MaxEvents
    /\ ev = NoEvent
    /\ res = ReturnedNull
    /\ loc = NoLoc
    /\ out = NoOut
    /\ sent = <<>>
    /\ writes = <<>>
    /\ status = "none"
    /\ snap = SeedDb
    /\ prev = NoPrev
    /\ faults = 0
    /\ response = "none"
    /\ req = ""
    /\ found = NoRow
    /\ call = NoCall
    /\ sw = NoSend
    /\ reg = NoReg
    /\ link = NoLink

\* -------------------------------------------------- the webhook handler
\* for comparison: the secret of the request is not compared
validateSecret_NoCheck(configured, given) == "ok"
\* validateSecret
validateSecret(configured, given) ==
    IF configured # "" /\ given # configured THEN "UNAUTHORIZED" ELSE "ok"

\* POST /attio/webhook with a wrong secret
RejectWebhook(given) ==
    /\ pc = "idle"
    /\ validateSecret(Secret, given) = "UNAUTHORIZED"
    /\ response' = "unauthorized"
    /\ req' = given
    /\ UNCHANGED <<db, nextId, opts, pc, left, ev, res, loc, out, sent,
                   writes, status, snap, prev, faults,
                   found, call, sw, reg, link>>

\* POST /attio/webhook; the events of its body are read as the loop takes them
ReceiveWebhook(given) ==
    /\ pc = "idle"
    /\ validateSecret(Secret, given) = "ok"
    /\ pc' = "loop"
    /\ response' = "pending"
    /\ req' = given
    /\ UNCHANGED <<db, nextId, opts, left, ev, res, loc, out, sent, writes, status, snap,
                   prev, faults,
                   found, call, sw, reg, link>>

\* for comparison: the option read without its default; the option not read
onMissingOf_NoDefault(o) == o.onMissing
onMissingOf_AlwaysCreate(o) == "create"
\* adapter.onMissing || "create"
onMissingOf(o) == IF o.onMissing = "unset" THEN "create" ELSE o.onMissing
\* for comparison: the option not read
syncDeletionsOf_Always(o) == TRUE
\* adapter.syncDeletions !== false
syncDeletionsOf(o) == o.syncDeletions # "false"

\* for comparison: events started without awaiting the one before
CanBegin_NoAwait(at) == at \in {"loop", "org_sync", "send"}
\* `for (const event of events)` takes the next event when the body of the
\* loop has run to its end for the one before
CanBegin(at) == at = "loop"

\* the values adapter.fromAttio is given for the event being handled
ValuesOf(e) == ExtractedValues(e.rid, e.values)

\* the member sync of organizationAdapter.fromAttio, as read from the store:
\* the member rows to delete and the user ids to add
SyncPlan(store, rev, orgId, values) ==
    LET current == FindRows(store.member, [organizationId |-> orgId])
        target == ResolveUsers(store.user, userRefsOf(rev, Get(values, "users")), <<>>)
        targetIds == {target[i] : i \in 1..Len(target)}
        InCurrent(uid) == \E m \in current : m.userId = uid
    IN  [orgId |-> orgId, k |-> 0,
         toDelete |-> {m \in current : m.userId \notin targetIds},
         toCreate |-> SelectSeq(target, LAMBDA uid : ~InCurrent(uid))]

\* where the handler goes: a label, the event's status, fromAttio's result
\* and the adapter's locals
Go(label, st, r, l) == [pc |-> label, status |-> st, res |-> r, loc |-> l]
Skipped == Go("done", "skipped", ReturnedNull, NoLoc)
\* for comparison: an exception that leaves the loop instead of being caught
Failed_Uncaught == Go("aborted", "failed", ReturnedNull, NoLoc)
Failed == Go("done", "failed", ReturnedNull, NoLoc)

\* for comparison: the result of fromAttio used without the null check
AfterFromAttio_NoNullCheck(r, l) == Go("default", "running", r, l)
\* fromAttio has returned r: `if (result === null) continue`, else the
\* default policy
AfterFromAttio(r, l) ==
    IF r.nul THEN Go("done", "ok", r, l) ELSE Go("default", "running", r, l)

\* the member sync goes on, or fromAttio returns
AfterSync(rev, l, values) ==
    IF l.toDelete # {} \/ l.toCreate # <<>> THEN Go("org_sync", "running", ReturnedNull, l)
    ELSE AfterFromAttio(orgSyncedResult(rev, l.orgId, values), l)

\* organizationAdapter.fromAttio up to its first store write; org is the
\* row findOne gave for the external id (NoRow: none)
OrgBegin(rev, event, values, org, newId) ==
    LET od == orgDataOf(rev, values)
    IN  IF event = "delete"
        THEN IF org = NoRow THEN AfterFromAttio(ReturnedNull, NoLoc)
             ELSE Go("org_delete", "running", ReturnedNull,
                     [NoLoc EXCEPT !.orgId = org.id, !.k = 1])
        ELSE IF od.thrown THEN Failed
        ELSE IF event = "create" THEN Go("org_create", "running", ReturnedNull, NoLoc)
        ELSE IF org = NoRow
        THEN AfterFromAttio(Returned(orgMissingPatch(rev, od.p, values, newId)), NoLoc)
        ELSE Go("org_update", "running", ReturnedNull, [NoLoc EXCEPT !.orgId = org.id])

\* lines 106-155 of the handler: from the event to the call of fromAttio
Begin(o, e, org, newId) ==
    LET model == AdapterModel(e.slug)
        event == SyncEventOf(e.type)
        values == ValuesOf(e)
        r == userFromAttio(event, values, newId)
    IN  IF e.shape = "norecord" THEN Skipped
        ELSE IF model = "none" THEN Skipped
        ELSE IF e.shape = "novalues" THEN Failed
        ELSE IF \E key \in DOMAIN values : values[key] = Thrown THEN Failed
        ELSE IF event = "none" THEN Skipped
        ELSE IF model = "user"
        THEN IF r.thrown THEN Failed ELSE AfterFromAttio(r, NoLoc)
        ELSE OrgBegin(o.orgRev, event, values, org, newId)

\* one of the rows findOne may give, NoRow when there is none
OneOf(rows) == IF rows = {} THEN {NoRow} ELSE rows

Goto(g) ==
    \E to \in {g} :
        /\ pc' = to.pc
        /\ status' = to.status
        /\ res' = to.res
        /\ loc' = to.loc

\* the number, in the run, of the event being handled
EventNo == MaxEvents - left

WriteOp(op, model) == [op |-> op, model |-> model, event |-> EventNo]

BeginEvent(e) ==
    /\ CanBegin(pc)
    /\ left > 0
    /\ left' = left - 1
    /\ ev' = e
    /\ snap' = db
    /\ sent' = <<>>
    /\ writes' = <<>>
    /\ out' = NoOut
    /\ \E org \in OneOf(IF AdapterModel(e.slug) = "organization" /\ e.shape = "ok"
                        THEN FindRows(db.organization,
                                      [attioId |-> ToDb(Get(ValuesOf(e), "record_id"))])
                        ELSE {}) :
            Goto(Begin(opts, e, org, ToString(nextId)))
    /\ found' = NoRow
    /\ UNCHANGED <<db, nextId, opts, prev, faults, response,
                   req, call, sw, reg, link>>

\* organizationAdapter.fromAttio, delete: the members, then the organization
OrgDelete ==
    /\ pc = "org_delete"
    /\ LET model == OrgDeleteOrder[loc.k]
           where == IF model = "member" THEN [organizationId |-> loc.orgId]
                    ELSE [id |-> loc.orgId]
       IN  /\ db' = [db EXCEPT ![model] = DeleteRows(db[model], where)]
           /\ writes' = Append(writes, WriteOp("delete", model))
    /\ IF loc.k < Len(OrgDeleteOrder)
       THEN Goto(Go("org_delete", "running", ReturnedNull, [loc EXCEPT !.k = loc.k + 1]))
       ELSE Goto(AfterFromAttio(ReturnedNull, loc))
    /\ UNCHANGED <<nextId, opts, left, ev, out, sent, snap, prev, faults,
                   response,
                   req, found, call, sw, reg, link>>

\* organizationAdapter.fromAttio, create: the organization row, then the
\* reads of the member sync
OrgCreate ==
    /\ pc = "org_create"
    /\ \E values \in {ValuesOf(ev)} :
       \E orgData \in {orgDataOf(opts.orgRev, values).p} :
       \E row \in {NewRow("organization",
                          ("id" :> Str(ToString(nextId))) @@ ("createdAt" :> Now)
                             @@ ("updatedAt" :> Now) @@ orgData,
                          ToString(nextId))} :
       \E store \in {[db EXCEPT !.organization = @ \cup {row}]} :
       \E plan \in {SyncPlan(store, opts.orgRev, row.id, values)} :
           /\ db' = store
           /\ Goto(AfterSync(opts.orgRev, plan, values))
    /\ nextId' = nextId + 1
    /\ writes' = Append(writes, WriteOp("create", "organization"))
    /\ UNCHANGED <<opts, left, ev, out, sent, snap, prev, faults, response,
                   req, found, call, sw, reg, link>>

\* organizationAdapter.fromAttio, update of a stored organization: the
\* update of its row, then the reads of the member sync
OrgUpdate ==
    /\ pc = "org_update"
    /\ \E values \in {ValuesOf(ev)} :
       \E orgData \in {orgDataOf(opts.orgRev, values).p} :
       \E store \in {[db EXCEPT !.organization =
                        UpdateRows(@, [id |-> loc.orgId], ("updatedAt" :> Now) @@ orgData)]} :
       \E plan \in {SyncPlan(store, opts.orgRev, loc.orgId, values)} :
           /\ db' = store
           /\ Goto(AfterSync(opts.orgRev, plan, values))
    /\ writes' = Append(writes, WriteOp("update", "organization"))
    /\ UNCHANGED <<nextId, opts, left, ev, out, sent, snap, prev, faults,
                   response,
                   req, found, call, sw, reg, link>>

\* member sync: remove one member that is no longer referenced
OrgSyncDelete ==
    /\ pc = "org_sync"
    /\ loc.toDelete # {}
    /\ \E m \in loc.toDelete :
        /\ db' = [db EXCEPT !.member =
                    DeleteRows(@, [organizationId |-> loc.orgId, userId |-> m.userId])]
        /\ Goto(AfterSync(opts.orgRev, [loc EXCEPT !.toDelete = @ \ {m}], ValuesOf(ev)))
    /\ writes' = Append(writes, WriteOp("delete", "member"))
    /\ UNCHANGED <<nextId, opts, left, ev, out, sent, snap, prev, faults,
                   response,
                   req, found, call, sw, reg, link>>

\* member sync: add one referenced user as a member
OrgSyncCreate ==
    /\ pc = "org_sync"
    /\ loc.toDelete = {}
    /\ loc.toCreate # <<>>
    /\ LET row == NewRow("member",
                         ("organizationId" :> Str(loc.orgId))
                            @@ ("userId" :> Str(Head(loc.toCreate)))
                            @@ ("role" :> Str("member"))
                            @@ ("createdAt" :> Now) @@ ("updatedAt" :> Now),
                         ToString(nextId))
       IN  db' = [db EXCEPT !.member = @ \cup {row}]
    /\ nextId' = nextId + 1
    /\ Goto(AfterSync(opts.orgRev, [loc EXCEPT !.toCreate = Tail(@)], ValuesOf(ev)))
    /\ writes' = Append(writes, WriteOp("create", "member"))
    /\ UNCHANGED <<opts, left, ev, out, sent, snap, prev, faults, response,
                   req, found, call, sw, reg, link>>

\* ---------------------------------------- the handler's default policy
\* for comparison: the patch with nothing taken out
updateDataOf_KeepsAll(result) == result
\* for comparison: the patch without its id only
updateDataOf_KeepsCreatedAt(result) == [key \in DOMAIN result \ {"id"} |-> result[key]]
\* the patch without the columns an update may not touch
updateDataOf(result) == [key \in DOMAIN result \ {"id", "createdAt"} |-> result[key]]

\* the rows findOne may give for the event's external id
Existing == FindRows(db[AdapterModel(ev.slug)], [attioId |-> ev.rid])

AtDefault(event) == pc = "default" /\ SyncEventOf(ev.type) = event

\* for comparison: the delete branch ending in a call of sendWebhookEvent
afterDefaultDelete_Echo(r, l) == Go("send", "running", r, l)
\* the end of the delete branch: nothing is sent
afterDefaultDelete(r, l) == Go("done", "ok", r, l)

\* delete event: delete the stored row, if there is one
DefaultDelete ==
    /\ AtDefault("delete")
    /\ LET model == AdapterModel(ev.slug)
       IN  IF syncDeletionsOf(opts) /\ Existing # {}
           THEN \E existing \in Existing :
                    /\ db' = [db EXCEPT ![model] = DeleteRows(@, [id |-> existing.id])]
                    /\ writes' = Append(writes, WriteOp("delete", model))
                    /\ found' = existing
           ELSE UNCHANGED <<db, writes, found>>
    /\ Goto(afterDefaultDelete(res, loc))
    /\ UNCHANGED <<nextId, opts, left, ev, out, sent, snap, prev, faults,
                   response,
                   req, call, sw, reg, link>>

\* create or update event, stored row found: update it and send "update"
DefaultUpdate ==
    /\ ~AtDefault("delete") /\ pc = "default"
    /\ LET model == AdapterModel(ev.slug)
           updateData == updateDataOf(res.p)
       IN  \E existing \in Existing :
            /\ found' = existing
            /\ IF DOMAIN updateData # {}
               THEN /\ db' = [db EXCEPT ![model] =
                               UpdateRows(@, [id |-> existing.id], updateData)]
                    /\ writes' = Append(writes, WriteOp("update", model))
                    /\ out' = [event |-> "update",
                               values |-> Patched(existing, updateData)]
                    /\ Goto(Go("send", "running", res, loc))
               ELSE /\ UNCHANGED <<db, writes, out>>
                    /\ Goto(Go("done", "ok", res, loc))
    /\ UNCHANGED <<nextId, opts, left, ev, sent, snap, prev, faults,
                   response,
                   req, call, sw, reg, link>>

\* no stored row; create event, or update event under onMissing "create":
\* create the row and send "create"
DefaultCreate ==
    /\ ~AtDefault("delete") /\ pc = "default"
    /\ Existing = {}
    /\ AtDefault("create") \/ onMissingOf(opts) = "create"
    /\ LET model == AdapterModel(ev.slug)
           row == NewRow(model, res.p, ToString(nextId))
       IN  /\ db' = [db EXCEPT ![model] = @ \cup {row}]
           /\ writes' = Append(writes, WriteOp("create", model))
           /\ out' = [event |-> "create", values |-> row]
    /\ nextId' = nextId + 1
    /\ Goto(Go("send", "running", res, loc))
    /\ UNCHANGED <<opts, left, ev, sent, snap, prev, faults, response,
                   req, found, call, sw, reg, link>>

\* no stored row, update event under onMissing "delete": ask Attio to delete
DefaultOrphan ==
    /\ AtDefault("update")
    /\ Existing = {}
    /\ onMissingOf(opts) = "delete"
    /\ out' = [event |-> "delete", values |-> [attioId |-> ev.rid]]
    /\ Goto(Go("send", "running", res, loc))
    /\ UNCHANGED <<db, nextId, opts, left, ev, sent, writes, snap, prev,
                   faults, response,
                   req, found, call, sw, reg, link>>

\* no stored row, update event under any other onMissing ("ignore"): nothing
DefaultIgnore ==
    /\ AtDefault("update")
    /\ Existing = {}
    /\ onMissingOf(opts) \notin {"create", "delete"}
    /\ Goto(Go("done", "ok", res, loc))
    /\ UNCHANGED <<db, nextId, opts, left, ev, out, sent, writes, snap,
                   prev, faults, response,
                   req, found, call, sw, reg, link>>

\* ------------------------------------------------- outbound dispatcher
\* adapter.toAttio of the adapter registered for the model
toAttio(o, model, event, values) ==
    IF model = "user" THEN userToAttio(event, values)
    ELSE orgToAttio(o.orgRev, event, values)

\* sendWebhookEvent: the transformed data go to every registered endpoint
sendWebhookEvent(store, o, model, event, values) ==
    [event |-> event,
     data |-> toAttio(o, model, event, values),
     users |-> IF model = "organization" THEN orgToAttioUsers(store, event, values)
               ELSE {},
     to |-> {w.id : w \in store.attioIntegration}]

Send ==
    /\ pc = "send"
    /\ sent' = Append(sent, sendWebhookEvent(db, opts, AdapterModel(ev.slug), out.event,
                                             out.values))
    /\ Goto(Go("done", "ok", res, loc))
    /\ UNCHANGED <<db, nextId, opts, left, ev, out, writes, snap, prev,
                   faults, response,
                   req, found, call, sw, reg, link>>

\* ------------------------------------------------------ the batch loop
\* a store call of the handler or of the adapter throws: the catch of the
\* loop logs the error
StoreFault ==
    /\ pc \in {"org_delete", "org_create", "org_update", "org_sync", "default"}
    /\ faults < MaxFaults
    /\ faults' = faults + 1
    /\ Goto(Go("done", "failed", res, loc))
    /\ UNCHANGED <<db, nextId, opts, left, ev, out, sent, writes, snap,
                   prev, response,
                   req, found, call, sw, reg, link>>

\* the body of the loop is over for this event
NextEvent ==
    /\ pc = "done"
    /\ prev' = IF status = "ok" /\ SyncEventOf(ev.type) = "create"
               THEN [type |-> ev.type, slug |-> ev.slug, rid |-> ev.rid]
               ELSE NoPrev
    /\ ev' = NoEvent
    /\ out' = NoOut
    /\ sent' = <<>>
    /\ writes' = <<>>
    /\ snap' = db
    /\ Goto(Go("loop", "none", ReturnedNull, NoLoc))
    /\ found' = NoRow
    /\ UNCHANGED <<db, nextId, opts, left, faults, response,
                   req, call, sw, reg, link>>

\* return ctx.json({ success: true })
Respond ==
    /\ pc = "loop"
    /\ pc' = "idle"
    /\ response' = "success"
    /\ UNCHANGED <<db, nextId, opts, left, ev, res, loc, out, sent, writes,
                   status, snap, prev, faults,
                   req, found, call, sw, reg, link>>

Next ==
    \/ \E given \in GivenSecrets : RejectWebhook(given)
    \/ \E given \in GivenSecrets : ReceiveWebhook(given)
    \/ \E e \in Events : BeginEvent(e)
    \/ OrgDelete
    \/ OrgCreate
    \/ OrgUpdate
    \/ OrgSyncDelete
    \/ OrgSyncCreate
    \/ DefaultDelete
    \/ DefaultUpdate
    \/ DefaultCreate
    \/ DefaultOrphan
    \/ DefaultIgnore
    \/ Send
    \/ StoreFault
    \/ NextEvent
    \/ Respond

Spec == Init /\ [][Next]_vars

\* ------------------------------------------- the extractor on its own
\* elements of a field envelope, one or more for every extraction rule
Items ==
    {Obj(("attribute_type" :> "email-address") @@ ("email_address" :> "a@x")
            @@ ("value" :> "v")),
     Obj(("attribute_type" :> "phone-number") @@ ("phone_number" :> "+1")
            @@ ("original_phone_number" :> "1")),
     Obj(("attribute_type" :> "phone-number") @@ ("phone_number" :> "")
            @@ ("original_phone_number" :> "1") @@ ("value" :> "v")),
     RefEl("ua1"),
     Obj(("attribute_type" :> "personal-name") @@ ("full_name" :> "Ann A")
            @@ ("referenced_actor_id" :> "act1")),
     TextEl("Acme"),
     Obj(("attribute_type" :> "actor-reference") @@ ("referenced_actor_id" :> "act1")),
     Obj(("attribute_type" :> "text") @@ ("value" :> "v")
            @@ ("referenced_actor_id" :> "act1")),
     Obj(("attribute_type" :> "location") @@ ("locality" :> "Ulm"))}

\* what a caller may hand to extractAttioValue
FieldData ==
    {Undef, Null, Str("ua1")}
        \cup {Arr(q) : q \in UNION {[1..n -> Items] : n \in 0..MaxLen}}

ExtractorRevs == {"part_004", "part_003"}

ExtractInit ==
    /\ Init
    /\ opts = [onMissing |-> "unset", syncDeletions |-> "unset", orgRev |-> "part_003"]

\* extractAttioValue(fieldData), called once on an input of the caller's choice
Extract(rev, fieldData) ==
    /\ call = NoCall
    /\ call' = [rev |-> rev, fieldData |-> fieldData,
                result |-> Extractor(rev, fieldData)]
    /\ UNCHANGED <<db, nextId, opts, pc, left, ev, res, loc, out, sent, writes,
                   status, snap, prev, faults, response, req, found,
                   sw, reg, link>>

ExtractNext == \E rev \in ExtractorRevs, fieldData \in FieldData : Extract(rev, fieldData)

ExtractSpec == ExtractInit /\ [][ExtractNext]_vars

\* ------------------------------------------ the dispatcher on its own
\* the variables of the inbound handler and of the extractor
inboundVars == <<opts, pc, left, ev, res, loc, out, sent, writes, status, snap,
                 prev, faults, response, req, found, call>>

\* the adapters a caller may hand to sendWebhookEvent: the two built-in ones,
\* one whose toAttio returns null and one whose toAttio throws
SendAdapters == {"user", "organization", "silent", "broken"}
SyncEvents == {"create", "update", "delete"}
\* webhookUrl values a link request may carry
Urls == {"https://a", "https://b"}

\* the transformed data of a built-in adapter, the users list of the
\* organization adapter next to its other keys
AttioData(d, users) == [k |-> "obj", s |-> "", a |-> users, f |-> d]

\* await modelAdapter.toAttio(event, data, ctx), when it returns
toAttioOf(o, store, adapter, event, values) ==
    CASE adapter = "silent" -> Null
      [] adapter = "broken" -> Thrown
      [] OTHER -> AttioData(toAttio(o, adapter, event, values),
                            IF adapter = "organization"
                            THEN orgToAttioUsers(store, event, values) ELSE {})

\* for comparison: a null result is delivered like any other
suppressed_Never(attioData) == FALSE
\* if (!attioData) return
suppressed(attioData) == ~Truthy(attioData)

\* for comparison: the error of the try block is thrown on to the caller
catchAll_Rethrown(failure) == "thrown"
\* catch (error) { console.error(...) }: the call completes normally
catchAll(failure) == "returned"

\* fetch(webhook.webhookUrl, { method: "POST", body: { event, data: attioData } })
postOf(webhook, event, attioData) ==
    [to |-> webhook.id, url |-> webhook.webhookUrl, event |-> event,
     data |-> attioData, st |-> "open"]

\* for comparison: the first endpoint is posted to twice
startPosts_FirstTwice(webhooks, event, attioData) ==
    [i \in 1..(Len(webhooks) + (IF webhooks = <<>> THEN 0 ELSE 1)) |->
        postOf(webhooks[IF i > Len(webhooks) THEN 1 ELSE i], event, attioData)]
\* for comparison: only the first POST is started before the wait begins
startPosts_FirstOnly(webhooks, event, attioData) ==
    [i \in 1..(IF webhooks = <<>> THEN 0 ELSE 1) |-> postOf(webhooks[i], event, attioData)]
\* webhooks.map(async (webhook) => { ... await fetch(...) ... }): every callback
\* runs up to its fetch before map returns
startPosts(webhooks, event, attioData) ==
    [i \in 1..Len(webhooks) |-> postOf(webhooks[i], event, attioData)]

\* for comparison: the deliveries are always awaited inline
usesWaitUntil_Never(waitUntil) == FALSE
\* if (opts.waitUntil)
usesWaitUntil(waitUntil) == waitUntil

\* for comparison: a failed delivery rejects the group and the others are dropped
settled_FailFast(posts, i, outcome) ==
    [j \in 1..Len(posts) |->
        IF j = i THEN [posts[j] EXCEPT !.st = outcome]
        ELSE IF outcome # "ok" /\ posts[j].st = "open"
        THEN [posts[j] EXCEPT !.st = "dropped"] ELSE posts[j]]
\* the callback of one endpoint ends: a response that is ok, a response that
\* is not (logged) or an error of fetch (caught and logged)
settled(posts, i, outcome) == [posts EXCEPT ![i].st = outcome]

\* for comparison: an endpoint whose delivery failed is unregistered
afterDelivery_Unlinks(store, post, outcome) ==
    IF outcome = "ok" THEN store
    ELSE [store EXCEPT !.attioIntegration = {w \in @ : w.id # post.to}]
\* the store once a delivery has ended: the outcome is logged, nothing is written
afterDelivery(store, post, outcome) == store

\* the rows of a table in an order the store may return them in
Orders(rows) ==
    {q \in [1..Cardinality(rows) -> rows] : \A r \in rows : \E i \in DOMAIN q : q[i] = r}

AllSettled(posts) == \A i \in DOMAIN posts : posts[i].st # "open"

\* the ids of the endpoints that were registered, at the start or by a link
\* that returned, and that an unlink has removed
Unlinked(store, next) ==
    ({w.id : w \in SeedDb.attioIntegration} \cup {ToString(n) : n \in 7..(next - 1)})
        \ {w.id : w \in store.attioIntegration}

\* for comparison: the endpoints as they were when the plugin started
registeredEndpoints_AtStart(store) == SeedDb.attioIntegration
\* ctx.adapter.findMany({ model: "attioIntegration" })
registeredEndpoints(store) == store.attioIntegration

\* sendWebhookEvent(event, data, modelAdapter, ctx, opts), called once on
\* inputs of the caller's choice
SendCall(adapter, event, values, waitUntil) ==
    /\ sw = NoSend
    /\ sw' = [NoSend EXCEPT !.pc = "toAttio", !.adapter = adapter, !.event = event,
                            !.values = values, !.waitUntil = waitUntil,
                            !.gone = Unlinked(db, nextId)]
    /\ UNCHANGED <<db, nextId, reg, link>>
    /\ UNCHANGED inboundVars

\* toAttio returns: nothing more is done for a null result
ToAttio ==
    /\ sw.pc = "toAttio"
    /\ \E d \in {toAttioOf(opts, db, sw.adapter, sw.event, sw.values)} :
        /\ d # Thrown
        /\ sw' = IF suppressed(d)
                 THEN [sw EXCEPT !.pc = "returned", !.attioData = d,
                                 !.outcome = "returned"]
                 ELSE [sw EXCEPT !.pc = "findMany", !.attioData = d]
    /\ UNCHANGED <<db, nextId, reg, link>>
    /\ UNCHANGED inboundVars

\* toAttio throws, by itself or because a store call of the organization
\* adapter does
ToAttioThrows ==
    /\ sw.pc = "toAttio"
    /\ sw.adapter = "broken" \/ (sw.adapter = "organization" /\ sw.event # "delete")
    /\ sw' = [sw EXCEPT !.pc = "returned", !.attioData = Thrown, !.failure = "toAttio",
                        !.outcome = catchAll("toAttio")]
    /\ UNCHANGED <<db, nextId, reg, link>>
    /\ UNCHANGED inboundVars

\* the endpoints are read, every POST is started, and the group of deliveries
\* is handed to opts.waitUntil or awaited
FindMany ==
    /\ sw.pc = "findMany"
    /\ \E webhooks \in Orders(registeredEndpoints(db)) :
       \E posts \in {startPosts(webhooks, sw.event, sw.attioData)} :
         sw' = IF usesWaitUntil(sw.waitUntil)
               THEN [sw EXCEPT !.pc = "returned", !.webhooks = webhooks,
                               !.posts = posts, !.handed = sw.handed + 1,
                               !.outcome = "returned"]
               ELSE [sw EXCEPT !.pc = "awaiting", !.webhooks = webhooks,
                               !.posts = posts]
    /\ UNCHANGED <<db, nextId, reg, link>>
    /\ UNCHANGED inboundVars

\* ctx.adapter.findMany throws
FindManyThrows ==
    /\ sw.pc = "findMany"
    /\ sw' = [sw EXCEPT !.pc = "returned", !.failure = "findMany",
                        !.outcome = catchAll("findMany")]
    /\ UNCHANGED <<db, nextId, reg, link>>
    /\ UNCHANGED inboundVars

\* one delivery ends
Settle(i, outcome) ==
    /\ sw.pc \in {"awaiting", "returned"}
    /\ i \in DOMAIN sw.posts
    /\ sw.posts[i].st = "open"
    /\ sw' = [sw EXCEPT !.posts = settled(sw.posts, i, outcome)]
    /\ db' = afterDelivery(db, sw.posts[i], outcome)
    /\ UNCHANGED <<nextId, reg, link>>
    /\ UNCHANGED inboundVars

\* await Promise.all(promises) is over
Return ==
    /\ sw.pc = "awaiting"
    /\ AllSettled(sw.posts)
    /\ sw' = [sw EXCEPT !.pc = "returned", !.outcome = "returned"]
    /\ UNCHANGED <<db, nextId, reg, link>>
    /\ UNCHANGED inboundVars

\* POST /attio/link or /attio/unlink with a wrong secret
LinkUnauthorized(op, given) ==
    /\ link.pc = "idle"
    /\ validateSecret(Secret, given) = "UNAUTHORIZED"
    /\ link' = [link EXCEPT !.op = op, !.arg = "", !.response = "UNAUTHORIZED"]
    /\ UNCHANGED <<db, nextId, sw, reg>>
    /\ UNCHANGED inboundVars

\* linkAttio: the endpoint is registered and its id returned
Link(given, url) ==
    /\ link.pc = "idle"
    /\ validateSecret(Secret, given) = "ok"
    /\ link.links < MaxLinks
    /\ db' = [db EXCEPT !.attioIntegration =
                @ \cup {NewRow("attioIntegration", ("webhookUrl" :> Str(url)),
                           ToString(nextId))}]
    /\ nextId' = nextId + 1
    /\ link' = [link EXCEPT !.op = "link", !.arg = "", !.response = "success",
                            !.links = link.links + 1]
    /\ UNCHANGED <<sw, reg>>
    /\ UNCHANGED inboundVars

\* linkAttio with a webhookUrl that is registered already, on a store that
\* enforces the unique constraint of the column: create throws
LinkRefused(given, url) ==
    /\ link.pc = "idle"
    /\ validateSecret(Secret, given) = "ok"
    /\ \E w \in db.attioIntegration : w.webhookUrl = url
    /\ link' = [link EXCEPT !.op = "link", !.arg = "", !.response = "error"]
    /\ UNCHANGED <<db, nextId, sw, reg>>
    /\ UNCHANGED inboundVars

\* unlinkAttio up to its findOne
UnlinkFind(given, webhookId) ==
    /\ link.pc = "idle"
    /\ validateSecret(Secret, given) = "ok"
    /\ link' = IF FindRows(db.attioIntegration, ("id" :> webhookId)) = {}
               THEN [link EXCEPT !.op = "unlink", !.arg = webhookId,
                                 !.response = "NOT_FOUND"]
               ELSE [link EXCEPT !.pc = "delete", !.op = "unlink", !.arg = webhookId,
                                 !.response = "pending"]
    /\ UNCHANGED <<db, nextId, sw, reg>>
    /\ UNCHANGED inboundVars

\* for comparison: the delete of unlinkAttio names no row
unlinkWhere_Any(webhookId) == <<>>
\* where: [{ field: "id", value: ctx.body.webhookId }]
unlinkWhere(webhookId) == ("id" :> webhookId)

\* unlinkAttio from its delete on
UnlinkDelete ==
    /\ link.pc = "delete"
    /\ db' = [db EXCEPT !.attioIntegration = DeleteRows(@, unlinkWhere(link.arg))]
    /\ link' = [link EXCEPT !.pc = "idle", !.response = "success"]
    /\ UNCHANGED <<nextId, sw, reg>>
    /\ UNCHANGED inboundVars

\* the record a call is made for: a row of the adapter's model
SendValues(adapter) ==
    IF adapter = "organization" THEN SeedDb.organization
    ELSE IF adapter = "user" THEN {u \in SeedDb.user : u.id \in {"1", "3"}}
    ELSE {u \in SeedDb.user : u.id = "1"}

\* the ids an unlink request may carry
WebhookIds == {"e1", "7", "zz"}

DispatchInit ==
    /\ Init
    /\ opts.onMissing = "unset"
    /\ opts.syncDeletions = "unset"

DispatchNext ==
    \/ \E adapter \in SendAdapters, event \in SyncEvents, waitUntil \in BOOLEAN :
         \E values \in SendValues(adapter) : SendCall(adapter, event, values, waitUntil)
    \/ ToAttio
    \/ ToAttioThrows
    \/ FindMany
    \/ FindManyThrows
    \/ \E i \in 1..(MaxLinks + 1), outcome \in {"ok", "bad", "neterr"} : Settle(i, outcome)
    \/ Return
    \/ \E op \in {"link", "unlink"}, given \in GivenSecrets : LinkUnauthorized(op, given)
    \/ \E given \in GivenSecrets, url \in Urls : Link(given, url)
    \/ \E given \in GivenSecrets, url \in Urls : LinkRefused(given, url)
    \/ \E given \in GivenSecrets, webhookId \in WebhookIds : UnlinkFind(given, webhookId)
    \/ UnlinkDelete

DispatchSpec == DispatchInit /\ [][DispatchNext]_vars

\* ------------------------------------------ the adapter registry
\* an adapter, by its identifiers, who defined it and the optional fields it has
Adapter(model, object, by, optional) ==
    [betterAuthModel |-> model, attioObject |-> object, by |-> by, optional |-> optional]

userAdapter == Adapter("user", "users", "builtin", {})
organizationAdapter == Adapter("organization", "workspaces", "builtin", {"relatedModels"})
defaultAdapters == <<userAdapter, organizationAdapter>>

\* adapters a caller may supply: for the models of the built-in ones and for
\* a model of its own
CallerAdapters ==
    {Adapter("user", "people", "caller", {"onMissing"}),
     Adapter("user", "users", "caller", {}),
     Adapter("organization", "workspaces", "caller", {}),
     Adapter("organization", "companies", "caller", {"syncDeletions"}),
     Adapter("team", "teams", "caller", {})}
\* the lists handed to getAdapters; an undefined list behaves as the empty one
UserAdapters == UNION {[1..n -> CallerAdapters] : n \in 0..MaxAdapters}
ModelNames == {"user", "organization", "team", "session"}

\* for comparison: the built-in adapters are kept beside the caller's
getAdapters_KeepsDefaults(userAdapters) == defaultAdapters \o userAdapters
\* getAdapters
getAdapters(userAdapters) ==
    LET userAdapterModels == {userAdapters[i].betterAuthModel : i \in DOMAIN userAdapters}
        kept(defaultAdapter) == defaultAdapter.betterAuthModel \notin userAdapterModels
    IN  SelectSeq(defaultAdapters, kept) \o userAdapters

\* getAdapterByModel: adapters.find(...), <<>> for undefined
getAdapterByModel(adapters, model) ==
    LET hits == {i \in DOMAIN adapters : adapters[i].betterAuthModel = model}
    IN  IF hits = {} THEN <<>>
        ELSE <<adapters[CHOOSE i \in hits : \A j \in hits : i <= j]>>

\* getAdapters(userAdapters), called once on a list of the caller's choice
GetAdapters(userAdapters) ==
    /\ reg.pc = "idle"
    /\ reg' = [reg EXCEPT !.pc = "built", !.userAdapters = userAdapters,
                          !.adapters = getAdapters(userAdapters)]
    /\ UNCHANGED <<db, nextId, sw, link>>
    /\ UNCHANGED inboundVars

\* getAdapterByModel(adapters, model) on the registry built
GetAdapterByModel(model) ==
    /\ reg.pc = "built"
    /\ reg' = [reg EXCEPT !.pc = "found", !.model = model,
                          !.found = getAdapterByModel(reg.adapters, model)]
    /\ UNCHANGED <<db, nextId, sw, link>>
    /\ UNCHANGED inboundVars

RegistryNext ==
    \/ \E userAdapters \in UserAdapters : GetAdapters(userAdapters)
    \/ \E model \in ModelNames : GetAdapterByModel(model)

RegistryInit ==
    /\ DispatchInit
    /\ opts.orgRev = "part_002"

RegistrySpec == RegistryInit /\ [][RegistryNext]_vars

\* a step of the handler once a request is accepted: every await of the loop
\* settles, and the handler goes on
HandlerStep ==
    \/ \E e \in Events : BeginEvent(e)
    \/ OrgDelete \/ OrgCreate \/ OrgUpdate \/ OrgSyncDelete \/ OrgSyncCreate
    \/ DefaultDelete \/ DefaultUpdate \/ DefaultCreate \/ DefaultOrphan \/ DefaultIgnore
    \/ Send \/ StoreFault \/ NextEvent \/ Respond

FairSpec == Spec /\ WF_vars(HandlerStep)

\* --------------------------------------------------------------- claims
SyncedModels == {"user", "organization"}
RowsWith(model, attioId) == FindRows(db[model], [attioId |-> attioId])
HandlerAtRest == pc \in {"idle", "loop", "done"}

\* C1: whatever inbound events were handled, every model has at most one
\* row carrying a given external id
C1_OneRowPerExternalId ==
    HandlerAtRest =>
        \A model \in SyncedModels : \A r \in db[model] :
            r.attioId # DbNull => Cardinality(RowsWith(model, r.attioId)) = 1

\* the handler has run the body of the loop to its end for the event in ev,
\* without an exception
Applied(event) ==
    /\ pc = "done"
    /\ status = "ok"
    /\ AdapterModel(ev.slug) # "none"
    /\ SyncEventOf(ev.type) = event
\* the rows the event being handled found for its external id
FoundAtStart == FindRows(snap[AdapterModel(ev.slug)], [attioId |-> ev.rid])
\* the rows that carry its external id now
RowsNow == RowsWith(AdapterModel(ev.slug), ev.rid)

\* C2: a create event applied right after the same create event (same
\* object, same external id) leaves exactly one row with that external id,
\* and creates no row
C2_ReplayedCreate ==
    (Applied("create") /\ prev = [type |-> ev.type, slug |-> ev.slug, rid |-> ev.rid])
        => /\ Cardinality(RowsNow) = 1
           /\ \A i \in 1..Len(writes) :
                ~(writes[i].op = "create" /\ writes[i].model = AdapterModel(ev.slug))

\* the patch asks for nothing the row does not already hold
PatchMatches(row, patch) ==
    \A key \in DOMAIN patch : key \in DOMAIN row /\ row[key] = ToDb(patch[key])

\* C3: an update event whose patch equals the stored row makes no store
\* write and sends no outbound event
C3_NoOpUpdate ==
    (Applied("update") /\ ~res.nul /\ \E row \in FoundAtStart : PatchMatches(row, res.p))
        => writes = <<>> /\ sent = <<>>

\* the external ids the users attribute of the event refers to
RefIds(e) ==
    IF "users" \in DOMAIN e.values
    THEN {e.values.users.a[i].f.target_record_id : i \in 1..Len(e.values.users.a)}
    ELSE {}
MemberIds(orgId) == {m.userId : m \in FindRows(db.member, [organizationId |-> orgId])}
\* the organization adapter has reconciled the members of loc.orgId
Reconciled ==
    /\ Applied("create") \/ Applied("update")
    /\ AdapterModel(ev.slug) = "organization"
    /\ loc.orgId # ""

\* C4: once the organization adapter has reconciled an organization, its
\* members are exactly the local users the event's user references resolve to
C4_MembersEqualTarget ==
    Reconciled => MemberIds(loc.orgId) = {u.id : u \in {u \in db.user : u.attioId \in RefIds(ev)}}

OrphanUpdate == Applied("update") /\ ~res.nul /\ FoundAtStart = {}

C7_MissingAsksDelete ==
    (OrphanUpdate /\ opts.onMissing = "delete")
        => /\ writes = <<>> /\ db = snap
           /\ Len(sent) = 1
           /\ sent[1].event = "delete"
           /\ \E key \in DOMAIN sent[1].data : sent[1].data[key] = ev.rid
           /\ \A key \in DOMAIN sent[1].data : sent[1].data[key] \in {ev.rid, "true"}

\* C8: under onMissing "ignore" an update event for an unknown external id
\* writes nothing and sends nothing
C8_MissingIgnored ==
    (OrphanUpdate /\ opts.onMissing = "ignore")
        => writes = <<>> /\ db = snap /\ sent = <<>>

\* C8 witness: the update of an unknown organization has been ignored
C8_Witness ==
    OrphanUpdate /\ opts.onMissing = "ignore" /\ AdapterModel(ev.slug) = "organization"

\* the handler is in, or has ended, organizationAdapter's delete of loc.orgId
DeletingOrg ==
    /\ pc \in {"org_delete", "done"}
    /\ AdapterModel(ev.slug) = "organization"
    /\ SyncEventOf(ev.type) = "delete"
    /\ loc.orgId # ""

\* C9: while an organization is deleted its row is never gone with one of
\* its member rows left, and when the delete is over neither is left
C9_MembersDeletedFirst ==
    DeletingOrg =>
        /\ FindRows(db.organization, [id |-> loc.orgId]) = {}
                => FindRows(db.member, [organizationId |-> loc.orgId]) = {}
        /\ (pc = "done" /\ status = "ok")
                => /\ FindRows(db.organization, [id |-> loc.orgId]) = {}
                   /\ FindRows(db.member, [organizationId |-> loc.orgId]) = {}

\* C9 witness: an organization that had members has been deleted
C9_Witness ==
    /\ DeletingOrg /\ pc = "done" /\ status = "ok"
    /\ FindRows(snap.member, [organizationId |-> loc.orgId]) # {}
    /\ Len(writes) = Len(OrgDeleteOrder)

\* C10: an event is taken only when the event before it has run to its end
\* or has failed, and the store changes only for the event being handled
C10_OneEventAtATime ==
    [][/\ left' # left => (pc = "loop" /\ status = "none" /\ left' = left - 1)
       /\ db' # db => (ev' = ev /\ status = "running" /\ left' = left)]_vars

\* C10 witness: the second event of a batch writes to the store, after the
\* first one wrote to it and ended
C10_Witness ==
    /\ EventNo = 2 /\ pc = "done" /\ writes # <<>>
    /\ snap # SeedDb

\* C11: a request whose secret is not the configured one is answered
\* "unauthorized" and nothing of its batch is handled: no event is taken,
\* the store is not written, nothing is dispatched
C11_WrongSecretRejected ==
    [][req' # Secret =>
          /\ pc' = "idle" /\ response' = "unauthorized"
          /\ UNCHANGED <<db, nextId, left, ev, res, loc, out, sent, writes, status>>]_vars

\* C11 witness: a request with a wrong secret was rejected after an earlier
\* batch had changed the store
C11_Witness ==
    req = "wrong" /\ response = "unauthorized" /\ pc = "idle" /\ db # SeedDb

Envelope == IF call.fieldData.k = "arr" THEN call.fieldData.a ELSE <<>>

\* C13: extractAttioValue gives null for an envelope that is empty or not
\* an array, the one extracted value for an envelope of one element, and
\* for n >= 2 elements the array of the n extracted values in their order
C13_ShapeByCardinality ==
    call.rev # "" =>
        /\ Len(Envelope) = 0 => call.result = Null
        /\ Len(Envelope) = 1 => call.result = extractSingleValue(Envelope[1])
        /\ Len(Envelope) >= 2 =>
                /\ call.result.k = "arr"
                /\ Len(call.result.a) = Len(Envelope)
                /\ \A i \in 1..Len(Envelope) :
                        call.result.a[i] = extractSingleValue(Envelope[i])

\* the field each type tag selects
TagField ==
    [x \in {"email-address", "record-reference", "personal-name"} |->
        CASE x = "email-address" -> "email_address"
          [] x = "record-reference" -> "target_record_id"
          [] OTHER -> "full_name"]

\* the rules of the claim, first match first
RuleValue(item) ==
    LET tag == IF "attribute_type" \in DOMAIN item.f THEN item.f.attribute_type ELSE ""
        Field(key) == IF key \in DOMAIN item.f THEN Str(item.f[key]) ELSE Undef
    IN  IF tag \in DOMAIN TagField THEN Field(TagField[tag])
        ELSE IF tag = "phone-number"
        THEN IF Field("phone_number") \notin {Undef, Str("")} THEN Field("phone_number")
             ELSE Field("original_phone_number")
        ELSE IF "value" \in DOMAIN item.f THEN Field("value")
        ELSE IF "referenced_actor_id" \in DOMAIN item.f THEN Field("referenced_actor_id")
        ELSE Null

\* C14: every element the extractor reads is extracted by the first rule
\* that matches, a type tag before a `value` property, `value` before
\* `referenced_actor_id`, null when no rule matches
C14_FirstMatchingRule ==
    (call.rev # "" /\ Len(Envelope) >= 1) =>
        /\ Len(Envelope) = 1 => call.result = RuleValue(Envelope[1])
        /\ (Len(Envelope) >= 2 /\ call.rev = "part_003") =>
                call.result = RuleValue(Envelope[1])
        /\ (Len(Envelope) >= 2 /\ call.rev = "part_004") =>
                \A i \in 1..Len(Envelope) : call.result.a[i] = RuleValue(Envelope[i])

\* C14 witness: elements that carry a type tag and a `value` property, the
\* second one a phone number without a normalized form, were extracted by
\* their type tags
C14_Witness ==
    /\ call.rev = "part_004" /\ Len(Envelope) = 2
    /\ \A i \in 1..2 : "value" \in DOMAIN Envelope[i].f
    /\ call.result = Arr(<<Str("a@x"), Str("1")>>)

\* C15: once fromAttio has returned null the handler does nothing more for
\* the event: it never enters the default policy (no lookup, no write of
\* its own) and dispatches nothing
C15_NullResultEndsEvent ==
    /\ pc \in {"default", "send"} => ~res.nul
    /\ (pc = "done" /\ status = "ok" /\ res.nul)
            => (found = NoRow /\ out = NoOut /\ sent = <<>>)

\* C15 witness: an organization adapter has written the store itself and
\* returned null, and the event is over
C15_Witness ==
    /\ pc = "done" /\ status = "ok" /\ res.nul
    /\ AdapterModel(ev.slug) = "organization" /\ writes # <<>>

\* the patch without id and createdAt
Mutable(patch) == [key \in DOMAIN patch \ {"id", "createdAt"} |-> patch[key]]
\* the handler found a row for the event whose mutable fields differ from
\* the patch, and the event is over
FoundAndDiffers ==
    /\ Applied("create") \/ Applied("update")
    /\ ~res.nul
    /\ found # NoRow
    /\ ~PatchMatches(found, Mutable(res.p))

\* C16: a create or update event whose external id is carried by a stored
\* row that differs from the patch in a field other than id and createdAt
\* makes exactly one update, of that row, and then sends exactly one
\* outbound "update" carrying the updated row
C16_FoundAndDifferent ==
    FoundAndDiffers =>
        LET model == AdapterModel(ev.slug)
            updated == Patched(found, Mutable(res.p))
        IN  /\ Cardinality({i \in 1..Len(writes) : writes[i].model = model}) = 1
            /\ writes[Len(writes)] = WriteOp("update", model)
            /\ updated \in db[model]
            /\ FindRows(db[model], [id |-> found.id]) = {updated}
            /\ sent = <<sendWebhookEvent(db, opts, model, "update", updated)>>

\* C16 witness: a create event for a user that is stored has updated the
\* row and sent "update"
C16_Witness ==
    FoundAndDiffers /\ Applied("create") /\ AdapterModel(ev.slug) = "user"
        /\ Len(sent) = 1 /\ found \notin db.user

\* C17: a delete event whose adapter returned a patch deletes the row that
\* carries the external id, and only it, when syncDeletions is not false
\* and there is such a row; otherwise the store is left as it was
C17_DefaultDelete ==
    (Applied("delete") /\ ~res.nul) =>
        LET model == AdapterModel(ev.slug)
        IN  IF opts.syncDeletions = "false" \/ FoundAtStart = {}
            THEN db = snap /\ writes = <<>>
            ELSE /\ writes = <<WriteOp("delete", model)>>
                 /\ \E row \in FoundAtStart : db = [snap EXCEPT ![model] = @ \ {row}]

\* C17 witness: the row of a user has been deleted by a delete event
C17_Witness ==
    /\ Applied("delete") /\ ~res.nul /\ opts.syncDeletions # "false"
    /\ FoundAtStart # {} /\ RowsNow = {} /\ Len(writes) = 1

\* the event lacks record or object, no adapter serves its object, or its
\* event_type is not one of the three the handler knows
Unhandled(e) ==
    \/ e.shape = "norecord"
    \/ e.slug \notin {"users", "workspaces"}
    \/ e.type \notin {"record.created", "record.updated", "record.deleted"}

\* C18: an event without record or object, for an object without adapter,
\* or of an unknown event_type is skipped: fromAttio is not called, the
\* store is as the event found it, nothing is dispatched
C18_SkippedWithoutEffect ==
    (pc # "loop" /\ pc # "idle" /\ Unhandled(ev)) =>
        /\ pc = "done" /\ status = "skipped"
        /\ res = ReturnedNull /\ loc = NoLoc /\ found = NoRow
        /\ db = snap /\ writes = <<>> /\ sent = <<>> /\ out = NoOut

\* C18 witness: an event of an unknown type for a stored user was skipped
\* after an earlier event had changed the store
C18_Witness ==
    /\ pc = "done" /\ status = "skipped" /\ ev.type = "record.merged"
    /\ db # SeedDb

\* the handler is in the member sync of the organization adapter
InMemberSync == pc \in {"org_create", "org_update", "org_sync"}

\* C19: the member sync writes no user row, and a reference that resolves
\* to no user is dropped: every member of a reconciled organization is a
\* stored user
C19_SyncLeavesUsers ==
    /\ [][InMemberSync => db'.user = db.user]_vars
    /\ [](Reconciled => MemberIds(loc.orgId) \subseteq {u.id : u \in db.user})

\* C19 witness: an organization was reconciled against a reference to an
\* unknown user, and a member was added for the reference that is known
C19_Witness ==
    /\ Reconciled /\ "ux9" \in RefIds(ev) /\ opts.orgRev = "part_003"
    /\ \E i \in 1..Len(writes) : writes[i] = WriteOp("create", "member")
    /\ db.user = snap.user

\* the members the event found, and the members the adapter aims at
MembersBefore == {m.userId : m \in FindRows(snap.member, [organizationId |-> loc.orgId])}
MembersTarget ==
    LET target == ResolveUsers(db.user,
                               userRefsOf(opts.orgRev, Get(ValuesOf(ev), "users")), <<>>)
    IN  {target[i] : i \in 1..Len(target)}

\* C20: from the start of a member sync on, also after a store call of it
\* threw, the members of the organization are those from before the sync
\* or the whole target, never something in between
C20_SyncAtomic ==
    (/\ AdapterModel(ev.slug) = "organization"
     /\ SyncEventOf(ev.type) \in {"create", "update"}
     /\ loc.orgId # ""
     /\ pc \in {"org_sync", "default", "send", "done"})
        => MemberIds(loc.orgId) \in {MembersBefore, MembersTarget}

\* ---------------------------------------------- claims on the dispatcher
\* C21: when toAttio returned null, no POST is made to any endpoint.
C21_NullSuppressesDelivery ==
    (sw.pc # "idle" /\ sw.attioData.k = "null") => (sw.posts = <<>> /\ sw.webhooks = <<>>)

C21_Witness ==
    /\ sw.pc = "returned"
    /\ sw.attioData.k = "null"
    /\ db.attioIntegration # {}
    /\ sw.posts = <<>>

\* the identity, event and data of the POSTs of the call
Wire(posts) == [i \in DOMAIN posts |-> [to |-> posts[i].to, event |-> posts[i].event,
                                         data |-> posts[i].data]]

\* C22: when toAttio returned data and the endpoints were read, exactly one
\* POST is made for every endpoint registered at that moment, each with the
\* event and the transformed data of the call, and none is added later.
C22_OnePostPerEndpoint ==
    [][/\ (sw.pc = "findMany" /\ sw' # sw /\ sw'.failure = "") =>
            /\ Len(sw'.posts) = Cardinality(db.attioIntegration)
            /\ \A w \in db.attioIntegration :
                 Cardinality({i \in DOMAIN sw'.posts : sw'.posts[i].to = w.id}) = 1
            /\ \A i \in DOMAIN sw'.posts :
                 /\ sw'.posts[i].event = sw.event
                 /\ sw'.posts[i].data = sw.attioData
                 /\ sw.attioData.k = "obj"
       /\ sw.pc \in {"awaiting", "returned"} => Wire(sw'.posts) = Wire(sw.posts)]_vars

C22_Witness ==
    /\ sw.pc = "returned"
    /\ Len(sw.posts) = 2
    /\ sw.posts[1].to # sw.posts[2].to
    /\ AllSettled(sw.posts)

\* C23: when the delivery to one endpoint fails, the deliveries of the call
\* to the other endpoints stay as they are, and a failed delivery is never
\* started again.
C23_FailureIsLocal ==
    [][\A i \in DOMAIN sw.posts :
         /\ (sw.posts[i].st = "open" /\ i \in DOMAIN sw'.posts
                 /\ sw'.posts[i].st \in {"bad", "neterr"}) =>
               /\ DOMAIN sw'.posts = DOMAIN sw.posts
               /\ \A j \in DOMAIN sw.posts \ {i} : sw'.posts[j] = sw.posts[j]
         /\ (sw.posts[i].st \in {"bad", "neterr"}) =>
               /\ DOMAIN sw'.posts = DOMAIN sw.posts
               /\ sw'.posts[i] = sw.posts[i]]_vars

C23_Witness ==
    /\ Len(sw.posts) = 2
    /\ sw.posts[1].st \in {"bad", "neterr"}
    /\ sw.posts[2].st = "ok"

\* C24: however the call ends (toAttio threw, the endpoints could not be
\* read, deliveries failed) it returns to its caller and throws nothing.
C24_NeverThrows ==
    /\ sw.outcome \in {"", "returned"}
    /\ sw.pc = "returned" => sw.outcome = "returned"

C24_Witness ==
    /\ sw.pc = "returned"
    /\ sw.failure = "findMany"
    /\ sw.outcome = "returned"

\* the endpoints were read for a call whose data is not null
Dispatched == sw.pc \in {"awaiting", "returned"} /\ sw.failure = "" /\ sw.attioData.k = "obj"

\* C25: without waitUntil the call has returned only when every delivery has
\* ended, and nothing is handed over; with waitUntil the deliveries are handed
\* over once and the call returns at once.
C25_AwaitedOrHanded ==
    /\ (~sw.waitUntil /\ sw.pc = "returned") => (AllSettled(sw.posts) /\ sw.handed = 0)
    /\ (sw.waitUntil /\ Dispatched) => (sw.handed = 1 /\ sw.pc = "returned")
    /\ sw.handed <= 1

C25_Witness ==
    /\ sw.waitUntil
    /\ sw.pc = "returned"
    /\ sw.handed = 1
    /\ \E i \in DOMAIN sw.posts : sw.posts[i].st = "open"

\* C26: once the call waits for its deliveries or has handed them over, the
\* POST to every endpoint it read has been started.
C26_AllStartedBeforeAwait ==
    Dispatched =>
        \A i \in DOMAIN sw.webhooks :
            \E j \in DOMAIN sw.posts : sw.posts[j].to = sw.webhooks[i].id

C26_Witness ==
    /\ sw.pc = "awaiting"
    /\ Len(sw.posts) = 2
    /\ sw.posts[1].st = "open"
    /\ sw.posts[2].st = "ok"

\* C27: no step of the dispatcher changes the store.
C27_DispatchWritesNothing ==
    [][sw' # sw => db' = db]_vars

C27_Witness ==
    /\ sw.pc = "returned"
    /\ sw.adapter = "organization"
    /\ \E i \in DOMAIN sw.posts :
         /\ sw.posts[i].st = "bad"
         /\ \E w \in db.attioIntegration : w.id = sw.posts[i].to
    /\ db.organization = SeedDb.organization

\* ------------------------------------------------ claims on the registry
\* the adapters of a list that serve a model
Serving(list, model) == {list[i] : i \in {j \in DOMAIN list : list[j].betterAuthModel = model}}

\* C28: lookup by model in the registry getAdapters built gives an adapter
\* the caller supplied for the model, exactly as supplied, when there is one,
\* and then the registry holds no built-in adapter for the model; it gives
\* the built-in adapter when the caller supplied none.
C28_CallerReplacesBuiltIn ==
    reg.pc = "found" =>
        IF Serving(reg.userAdapters, reg.model) # {}
        THEN /\ Len(reg.found) = 1
             /\ reg.found[1] \in Serving(reg.userAdapters, reg.model)
             /\ \A a \in Serving(reg.adapters, reg.model) : a.by = "caller"
        ELSE \A a \in Serving(defaultAdapters, reg.model) : reg.found = <<a>>

C28_Witness ==
    /\ reg.pc = "found"
    /\ reg.model = "organization"
    /\ Len(reg.userAdapters) = 2
    /\ reg.userAdapters[2].betterAuthModel = "organization"
    /\ reg.found = <<reg.userAdapters[2]>>
    /\ reg.found[1].optional = {}

\* ------------------------------------------- claims on the external id
\* the record keeps the external id it has
KeepsExternalId(model, r) ==
    \A r2 \in db'[model] : r2.id = r.id => r2.attioId = r.attioId
\* no other record comes to hold the external id of the record: one that
\* holds it after the step held it before
NoOtherHolder(model, r) ==
    \A r2 \in db'[model] :
        (r2.attioId = r.attioId /\ r2.id # r.id) =>
            \E r1 \in db[model] : r1.id = r2.id /\ r1.attioId = r2.attioId

\* C29: in every step, a record that has an external id keeps it, and no
\* other record of its model comes to hold that external id.
C29_ExternalIdStable ==
    [][\A model \in SyncedModels : \A r \in db[model] :
         r.attioId # DbNull => (KeepsExternalId(model, r) /\ NoOtherHolder(model, r))]_vars

\* ------------------------------------------------------ claims on unlink
\* the endpoints registered under an id
Registered(webhookId) == {w \in db.attioIntegration : w.id = webhookId}

\* C30: an unlink request naming an id that is not registered is answered
\* NOT_FOUND and changes nothing; one naming a registered id is not, and its
\* delete removes the endpoint of that id and nothing else.
C30_UnlinkExact ==
    [][/\ (link.pc = "idle" /\ link' # link /\ link'.op = "unlink"
                /\ link'.response # "UNAUTHORIZED") =>
            /\ db' = db
            /\ (link'.response = "NOT_FOUND") <=> (Registered(link'.arg) = {})
       /\ (link.pc = "delete" /\ link' # link) =>
            /\ link'.response = "success"
            /\ Cardinality(Registered(link.arg)) = 1
            /\ db'.attioIntegration = db.attioIntegration \ Registered(link.arg)
            /\ \A model \in DOMAIN db \ {"attioIntegration"} : db'[model] = db[model]]_vars

C30_Witness ==
    /\ link.op = "unlink"
    /\ link.arg = "e1"
    /\ link.response = "success"
    /\ \E w \in db.attioIntegration : w.id = "7"
    /\ \A w \in db.attioIntegration : w.id # "e1"

\* ------------------------------------------- claims on the member sync
\* the member rows of the organization as the event found them whose user
\* is among the local users the event's references name
KeptMembers ==
    {m \in FindRows(snap.member, [organizationId |-> loc.orgId]) :
        \E u \in snap.user : u.id = m.userId /\ u.attioId \in RefIds(ev)}

\* the organization adapter is in, or past, the member sync of an event
SyncStarted ==
    /\ AdapterModel(ev.slug) = "organization"
    /\ SyncEventOf(ev.type) \in {"create", "update"}
    /\ loc.orgId # ""
    /\ pc \in {"org_sync", "default", "send", "done"}

\* C31: a member row whose user is a member already and is named by the
\* event's references stays in the store as it was (same id, role and
\* createdAt), and is the only row of its organization and user.
C31_KeptMemberUntouched ==
    SyncStarted =>
        \A m \in KeptMembers :
            /\ m \in db.member
            /\ FindRows(db.member, [organizationId |-> m.organizationId,
                                    userId |-> m.userId]) = {m}

\* the event's users envelope holds exactly one reference
OneReference == "users" \in DOMAIN ev.values /\ Len(ev.values.users.a) = 1

\* C32: once an organization is reconciled against a users envelope of one
\* reference that names a stored user, that user is its one member.
C32_SingleReference ==
    (Reconciled /\ OneReference) =>
        \A u \in db.user : u.attioId \in RefIds(ev) => MemberIds(loc.orgId) = {u.id}

\* ------------------------------------------ claims on immutable fields
\* C33: in every step of a create or update event, each stored user and
\* organization is still stored under its id with the createdAt it had.
C33_IdAndCreatedAtKept ==
    [][SyncEventOf(ev.type) \in {"create", "update"} =>
         \A model \in SyncedModels : \A r \in db[model] :
            /\ \E r2 \in db'[model] : r2.id = r.id
            /\ \A r2 \in db'[model] : r2.id = r.id => r2.createdAt = r.createdAt]_vars

\* C33 witness: a create event for a stored user, whose patch carries a new
\* id and createdAt, has updated the row, which keeps both
C33_Witness ==
    /\ Applied("create") /\ AdapterModel(ev.slug) = "user"
    /\ found # NoRow
    /\ {"id", "createdAt"} \subseteq DOMAIN res.p
    /\ res.p.id.s # found.id
    /\ \E i \in 1..Len(writes) : writes[i] = WriteOp("update", "user")
    /\ \E r \in db.user : r.id = found.id /\ r.createdAt = found.createdAt

\* --------------------------------- claims on the life of an endpoint
PostedTo(send) == {send.posts[i].to : i \in DOMAIN send.posts}

\* C34: when a call with data reads the endpoints, every endpoint that is
\* registered then gets a POST; and no POST of a call goes to an endpoint
\* whose unlink was over when the call began.
C34_DeliveredWhileRegistered ==
    [][/\ (sw.pc = "findMany" /\ sw' # sw /\ sw'.failure = "") =>
            \A w \in db.attioIntegration : w.id \in PostedTo(sw')
       /\ PostedTo(sw') \cap sw'.gone = {}]_vars

\* C34 witness: e1 was unlinked and another endpoint linked before the call
\* began; the call has posted to that endpoint only
C34_Witness ==
    /\ sw.pc = "returned"
    /\ sw.gone = {"e1"}
    /\ PostedTo(sw) = {"7"}

\* C35: an update event for a stored organization whose values have no
\* users key leaves the member rows of the organization as it found them.
C35_NoUsersKeyNoSync ==
    (SyncStarted /\ SyncEventOf(ev.type) = "update" /\ "users" \notin DOMAIN ev.values) =>
        FindRows(db.member, [organizationId |-> loc.orgId])
            = FindRows(snap.member, [organizationId |-> loc.orgId])

\* the event being handled carries one-element primary_email_address and
\* name envelopes
EmailAndName ==
    /\ {"primary_email_address", "name"} \subseteq DOMAIN ev.values
    /\ Len(ev.values.primary_email_address.a) = 1
    /\ Len(ev.values.name.a) = 1
\* C36: a create event for the users object with an unknown external id and
\* non-empty primary_email_address and name envelopes creates a user whose
\* email and name are the values of those envelopes
C36_FlattenedValuesSurvive ==
    (Applied("create") /\ AdapterModel(ev.slug) = "user" /\ FoundAtStart = {}
            /\ EmailAndName) =>
        \E u \in db.user :
            /\ u.attioId = ev.rid
            /\ u.email = ev.values.primary_email_address.a[1].f.email_address
            /\ u.name = ev.values.name.a[1].f.value

\* adapter.fromAttio has been called for the event in ev: the event names a
\* record of an object with an adapter, its values were extracted without an
\* exception and its type is one of the three synchronised types
FromAttioCalled ==
    /\ pc # "idle"
    /\ ev.shape = "ok"
    /\ AdapterModel(ev.slug) # "none"
    /\ SyncEventOf(ev.type) # "none"
    /\ \A key \in DOMAIN ev.values : extractAttioValue(ev.values[key]) # Thrown
\* C37: the record passed to adapter.fromAttio carries the external record's
\* own id under the key record_id, also when the values of the event have a
\* field named record_id; the user adapter hands that id on as attioId
C37_RecordIdIsOwnId ==
    FromAttioCalled =>
        /\ ValuesOf(ev).record_id = Str(ev.rid)
        /\ (AdapterModel(ev.slug) = "user" /\ "attioId" \in DOMAIN res.p) =>
                res.p.attioId = Str(ev.rid)

\* no two member rows for the same organization and user
NoDuplicateMember(members) ==
    \A m1 \in members : \A m2 \in members :
        (m1.organizationId = m2.organizationId /\ m1.userId = m2.userId) => m1 = m2
\* the users envelope of the event being handled names one record twice
NamedTwice ==
    /\ "users" \in DOMAIN ev.values
    /\ \E i \in 1..Len(ev.values.users.a) : \E j \in 1..Len(ev.values.users.a) :
            i # j /\ ev.values.users.a[i] = ev.values.users.a[j]
\* C38: a step of the handler never makes two member rows for the same
\* organization and user when there were none before it, also when the
\* reference list of the event names the same user twice
C38_NoDuplicateMember ==
    [][NoDuplicateMember(db.member) => NoDuplicateMember(db'.member)]_vars
\* an event naming user 2 twice has been reconciled: user 2 was no member of
\* the organization, one member row was created for it and it is the only one
C38_Witness ==
    /\ Reconciled
    /\ NamedTwice
    /\ FindRows(snap.member, [organizationId |-> loc.orgId, userId |-> "2"]) = {}
    /\ Cardinality(FindRows(db.member, [organizationId |-> loc.orgId, userId |-> "2"])) = 1
    /\ \E i \in DOMAIN writes : writes[i].op = "create" /\ writes[i].model = "member"

\* C39: while a delete event is being handled nothing is sent outbound and
\* the handler is not about to send: neither the adapter's own deletion nor
\* the default delete policy calls sendWebhookEvent, whether a stored record
\* is found or not
C39_DeleteNotEchoed ==
    SyncEventOf(ev.type) = "delete" => (sent = <<>> /\ pc # "send")
\* a delete event has been applied by the default policy: the stored row was
\* found and deleted, and nothing was sent
C39_Witness ==
    /\ Applied("delete")
    /\ ~res.nul
    /\ found # NoRow
    /\ found \in snap[AdapterModel(ev.slug)]
    /\ found \notin db[AdapterModel(ev.slug)]
    /\ \E i \in DOMAIN writes : writes[i].op = "delete"
    /\ sent = <<>>

====
